---- MODULE Spec2Model ----
(***************************************************************************)
(* Model of src/streamlit_sp500_demo.py: the crossover detector            *)
(* detecter_croisements_ma as main() runs it on a loaded price series, and *)
(* the synthesis block of main() that turns the latest indicator values    *)
(* into a conclusion; the indicator functions calculate_rsi,               *)
(* calculate_macd and calculate_bollinger_bands on a price series; and     *)
(* get_all_signals, the batch of sidebar signals computed by a pool of     *)
(* worker threads and kept by st.cache_data.                               *)
(*                                                                         *)
(* Numbers.  The source works on IEEE-754 doubles.  Here every price is an *)
(* integer and every rolling mean is held multiplied by Echelle (the       *)
(* product of the two windows), which makes the means exact integers and   *)
(* keeps every comparison of the source exact.  NaN is one value outside   *)
(* every numeric range; the comparisons Gt and Lt are FALSE as soon as an  *)
(* operand is NaN, as the comparisons of doubles are.  The indicator       *)
(* functions divide, and their values are exact fractions extended with    *)
(* the infinities and NaN.  The rounding of doubles is not modelled.       *)
(***************************************************************************)
EXTENDS Integers, Sequences, FiniteSets, TLC

\* ------------------------------------------------------------------ bounds
\* Longest series the provider returns in the model.
MaxLen == 6
\* Closes are drawn from 1..MaxClose.
MaxClose == 3
\* The window of MA50 (50 in the source, line 132), scaled down.
FastWindow == 2
\* The window of MA200 (200 in the source, line 133), scaled down.
SlowWindow == 3
\* Latest price and latest moving averages of the synthesis are drawn from
\* 1..MaxPrix.
MaxPrix == 3
\* Longest series handed to the indicator functions.
MaxLenInd == 3
\* Their closes are drawn from 1..MaxCours.
MaxCours == 2
\* The window of calculate_rsi and calculate_bollinger_bands is drawn from
\* 1..MaxPeriode.
MaxPeriode == 3
\* Tickers are 1..NbTickers; a batch asks for some of them, each once.
NbTickers == 3
\* The worker threads of the executor (max_workers=10 in the source, line 369),
\* scaled down below the number of tickers.
MaxWorkers == 2
\* How many times the reader of the cache reads.
MaxLectures == 1

\* ------------------------------------------------------- program constants
PoidsMA == 2
PoidsMixte == 1
PoidsRSI == 1
PoidsMACD == 1
SeuilSurachat == 70
SeuilSurvente == 30
std_dev == 2

\* ------------------------------------------------------------------ values
NaN == 0 - 1000000

Gt(a, b) == a # NaN /\ b # NaN /\ a > b
Lt(a, b) == a # NaN /\ b # NaN /\ a < b
Ge(a, b) == a # NaN /\ b # NaN /\ a >= b
Le(a, b) == a # NaN /\ b # NaN /\ a <= b

Echelle == FastWindow * SlowWindow

VARIABLES
    data,            \* the frame returned by the provider: rows of Close and the other fields
    ma_cols,         \* the columns MA50 and MA200 of data (<<>> while they do not exist)
    data_clean,      \* detecter_croisements_ma: data.dropna()
    i,               \* detecter_croisements_ma: the loop index (1-based here)
    golden_crosses,  \* detecter_croisements_ma: dates of the Golden Crosses
    death_crosses,   \* detecter_croisements_ma: dates of the Death Crosses
    pc,              \* position in main()
    show_ma, show_rsi, show_macd, show_bollinger,   \* the sidebar checkboxes
    prix_actuel, dernier_ma50, dernier_ma200,
    rsi_actuel, macd_actuel, signal_actuel,
    upper_actuel, lower_actuel,
    signaux_positifs, signaux_negatifs,
    conclusion,      \* the CONCLUSION shown by the synthesis block ("AUCUNE": none shown)
    analyse_bollinger, \* the message of the Bollinger section ("AUCUNE": none shown)
    close,           \* the indicator functions: data['Close'], a sequence of prices
    period,          \* calculate_rsi, calculate_bollinger_bands: the window
    fast, slow, signal,              \* calculate_macd: the three spans
    gain, loss, rsi,                 \* calculate_rsi: its three series
    ema_fast, ema_slow,              \* calculate_macd
    macd_line, signal_line, histogram,
    sma, std,                        \* calculate_bollinger_bands (std is held squared)
    upper_band, lower_band,
    tickers_list,    \* get_all_signals: its argument, a sequence of distinct tickers
    reponse,         \* what the provider answers for each ticker of the batch
    file,            \* the executor: positions of tickers_list not yet taken by a worker
    workers,         \* the executor: the task each worker thread runs (0: none) and its d
    futures,         \* the executor: one future per position of tickers_list
    collectes,       \* dict(ex.map(...)): how many futures have been consumed
    results,         \* get_all_signals: the dict being built
    cache,           \* st.cache_data: the entry of get_all_signals for tickers_list
    lu,              \* what a reader of the cache got at its latest read
    lectures         \* how many times the reader has read

detecteur == <<data, ma_cols, data_clean, i, golden_crosses, death_crosses>>
cases == <<show_ma, show_rsi, show_macd, show_bollinger>>
derniers == <<prix_actuel, dernier_ma50, dernier_ma200>>
synthese == <<rsi_actuel, macd_actuel, signal_actuel, upper_actuel, lower_actuel,
              signaux_positifs, signaux_negatifs, conclusion, analyse_bollinger>>
indicateurs == <<close, period, fast, slow, signal, gain, loss, rsi, ema_fast, ema_slow,
                 macd_line, signal_line, histogram, sma, std, upper_band, lower_band>>
signaux == <<tickers_list, reponse, file, workers, futures, collectes, results, cache, lu,
             lectures>>
autres == <<indicateurs, signaux>>
vars == <<detecteur, pc, cases, derniers, synthese, autres>>

\* ------------------------------------------------------- rolling statistics
RECURSIVE Somme(_, _, _)
Somme(d, a, b) == IF a > b THEN 0 ELSE d[b].Close + Somme(d, a, b - 1)

\* data['Close'].rolling(window=w).mean() at row r (rows are numbered from 1):
\* NaN until w closes are available, then the mean of the last w closes.
rolling_mean_decale(d, w, r) ==
    IF r <= w THEN NaN ELSE (Somme(d, r - w + 1, r) * Echelle) \div w

rolling_mean(d, w, r) ==
    IF r < w THEN NaN ELSE (Somme(d, r - w + 1, r) * Echelle) \div w

\* The two columns lines 132-133 (and 621-622) add to the frame.
Colonnes(d) ==
    [r \in 1..Len(d) |->
        [MA50 |-> rolling_mean(d, FastWindow, r),
         MA200 |-> rolling_mean(d, SlowWindow, r)]]

\* The frame with its index and its new columns.
Lignes(d, cols) ==
    [r \in 1..Len(d) |->
        [date |-> d[r].date, Close |-> d[r].Close * Echelle, AutreNaN |-> d[r].AutreNaN,
         MA50 |-> cols[r].MA50, MA200 |-> cols[r].MA200]]

\* DataFrame.dropna(): a row is dropped when ANY of its columns is NaN.
dropna(rows) ==
    SelectSeq(rows, LAMBDA x : ~x.AutreNaN /\ x.MA50 # NaN /\ x.MA200 # NaN)

\* ------------------------------------------------------ crossover detector
\* Line 152.
EstGoldenCross_strict(prev, curr) ==
    Lt(prev.MA50, prev.MA200) /\ Gt(curr.MA50, curr.MA200)

\* Line 152 without its test of the previous row.
EstGoldenCross_courant(prev, curr) == Gt(curr.MA50, curr.MA200)

EstGoldenCross(prev, curr) ==
    Le(prev.MA50, prev.MA200) /\ Gt(curr.MA50, curr.MA200)

\* Line 156.
EstDeathCross_strict(prev, curr) ==
    Gt(prev.MA50, prev.MA200) /\ Lt(curr.MA50, curr.MA200)

EstDeathCross(prev, curr) ==
    Ge(prev.MA50, prev.MA200) /\ Lt(curr.MA50, curr.MA200)

\* Line 153: data_clean.index[i].
IndexGolden_prev(dc, k) == dc[k - 1].date

IndexGolden(dc, k) == dc[k].date

\* Line 157: data_clean.index[i].
IndexDeath_prev(dc, k) == dc[k - 1].date

IndexDeath(dc, k) == dc[k].date

\* ------------------------------------------------------------------- Init
SyntheseAuRepos ==
    /\ show_ma = TRUE /\ show_rsi = TRUE /\ show_macd = TRUE /\ show_bollinger = FALSE
    /\ rsi_actuel = NaN /\ macd_actuel = NaN /\ signal_actuel = NaN
    /\ upper_actuel = NaN /\ lower_actuel = NaN
    /\ signaux_positifs = 0 /\ signaux_negatifs = 0
    /\ conclusion = "AUCUNE" /\ analyse_bollinger = "AUCUNE"

DetecteurAuRepos ==
    /\ data = <<>> /\ ma_cols = <<>> /\ data_clean = <<>> /\ i = 0
    /\ golden_crosses = <<>> /\ death_crosses = <<>>

IndicateursAuRepos ==
    /\ close = <<>> /\ period = 0 /\ fast = 0 /\ slow = 0 /\ signal = 0
    /\ gain = <<>> /\ loss = <<>> /\ rsi = <<>>
    /\ ema_fast = <<>> /\ ema_slow = <<>>
    /\ macd_line = <<>> /\ signal_line = <<>> /\ histogram = <<>>
    /\ sma = <<>> /\ std = <<>> /\ upper_band = <<>> /\ lower_band = <<>>

\* A cache entry: absent, or present with the value get_all_signals returned.
Absent == [present |-> FALSE, valeur |-> <<>>]

SignauxAuRepos ==
    /\ tickers_list = <<>> /\ reponse = <<>> /\ file = <<>> /\ workers = <<>>
    /\ futures = <<>> /\ collectes = 0 /\ results = <<>>
    /\ cache = Absent /\ lu = Absent /\ lectures = 0

AutresAuRepos == IndicateursAuRepos /\ SignauxAuRepos

Init ==
    /\ AutresAuRepos
    /\ DetecteurAuRepos
    /\ SyntheseAuRepos
    /\ prix_actuel = NaN /\ dernier_ma50 = NaN /\ dernier_ma200 = NaN
    /\ pc = "charger"

\* ---------------------------------------------------------------- actions
\* Lines 583-591: the provider returns a series (dates strictly ascending, every
\* close present; another field of at most one bar may be NaN).  An empty
\* series ends the page with an error.
ChargerDonnees ==
    /\ pc = "charger"
    /\ \E n \in 0..MaxLen :
         \E closes \in [1..n -> 1..MaxClose] :
           \E nan \in 0..n :
             data' = [r \in 1..n |-> [date |-> r, Close |-> closes[r], AutreNaN |-> (r = nan)]]
    /\ pc' = IF data' = <<>> THEN "erreur" ELSE "moyennes"
    /\ UNCHANGED <<ma_cols, data_clean, i, golden_crosses, death_crosses>>
    /\ UNCHANGED <<cases, derniers, synthese>>
    /\ UNCHANGED autres

\* Lines 607 and 620-624.
CalculerMoyennes ==
    /\ pc = "moyennes"
    /\ prix_actuel' = data[Len(data)].Close * Echelle
    /\ ma_cols' = Colonnes(data)
    /\ dernier_ma50' = ma_cols'[Len(data)].MA50
    /\ dernier_ma200' = ma_cols'[Len(data)].MA200
    /\ pc' = "detecter"
    /\ UNCHANGED <<data, data_clean, i, golden_crosses, death_crosses>>
    /\ UNCHANGED <<cases, synthese>>
    /\ UNCHANGED autres

\* Lines 129-143: detecter_croisements_ma up to its loop.
Detecter ==
    /\ pc = "detecter"
    /\ ma_cols' = Colonnes(data)
    /\ data_clean' = dropna(Lignes(data, ma_cols'))
    /\ golden_crosses' = <<>>
    /\ death_crosses' = <<>>
    /\ IF Len(data_clean') < 2
         THEN pc' = "retour" /\ i' = i
         ELSE pc' = "boucle" /\ i' = 2
    /\ UNCHANGED <<data, cases, derniers, synthese>>
    /\ UNCHANGED autres

\* Lines 145-157: one iteration of the loop; line 159 when the range is exhausted.
Boucle ==
    /\ pc = "boucle"
    /\ LET prev == data_clean[i - 1]
           curr == data_clean[i]
       IN  IF EstGoldenCross(prev, curr)
             THEN /\ golden_crosses' = Append(golden_crosses, IndexGolden(data_clean, i))
                  /\ death_crosses' = death_crosses
             ELSE IF EstDeathCross(prev, curr)
                    THEN /\ death_crosses' = Append(death_crosses, IndexDeath(data_clean, i))
                         /\ golden_crosses' = golden_crosses
                    ELSE UNCHANGED <<golden_crosses, death_crosses>>
    /\ i' = i + 1
    /\ pc' = IF i + 1 > Len(data_clean) THEN "retour" ELSE "boucle"
    /\ UNCHANGED <<data, ma_cols, data_clean, cases, derniers, synthese>>
    /\ UNCHANGED autres

Next == ChargerDonnees \/ CalculerMoyennes \/ Detecter \/ Boucle

Spec == Init /\ [][Next]_vars

\* ------------------------------------------- the page after the detector
\* Lines 629-665: the headline and the technical signals are written, then the
\* key levels, which read data['Close'].iloc[-50] (the 50 of MA50, FastWindow
\* here): on a series of fewer rows that position does not exist and the read
\* raises IndexError, which nothing in main() catches.
NiveauxCles ==
    /\ pc = "retour"
    /\ pc' = IF Len(data) < FastWindow THEN "IndexError" ELSE "graphiques"
    /\ UNCHANGED <<detecteur, cases, derniers, synthese>>
    /\ UNCHANGED autres

NextPage == ChargerDonnees \/ CalculerMoyennes \/ Detecter \/ Boucle \/ NiveauxCles

SpecPage == Init /\ [][NextPage]_vars

\* ---------------------------------------- the detector called on a frame
\* Line 129: detecter_croisements_ma is handed the frame as the provider
\* returned it, with the provider's fields only.
AppelerDetecteur ==
    /\ pc = "moyennes"
    /\ pc' = "detecter"
    /\ UNCHANGED <<detecteur, cases, derniers, synthese>>
    /\ UNCHANGED autres

NextAppel == ChargerDonnees \/ AppelerDetecteur \/ Detecter \/ Boucle

SpecAppel == Init /\ [][NextAppel]_vars

\* ------------------------------------------------- a series as it comes
\* The index of a frame of n rows: the dates 1..n in order, or with the date
\* of row k repeating the one before it, or with rows k-1 and k exchanged.
Index(n, defaut, k) ==
    [r \in 1..n |->
        IF defaut = "doublon" /\ r >= k THEN r - 1
        ELSE IF defaut = "desordre" /\ r = k THEN k - 1
        ELSE IF defaut = "desordre" /\ r = k - 1 THEN k
        ELSE r]

\* Lines 583-591 when nothing is assumed of the provider's index: the frame is
\* taken as it comes; only an empty one ends the page.
ChargerDonneesBrutes ==
    /\ pc = "charger"
    /\ \E n \in 0..MaxLen :
         \E closes \in [1..n -> 1..MaxClose] :
           \E defaut \in {"aucun", "doublon", "desordre"} :
             \E k \in (2..n) \cup {2} :
               data' = [r \in 1..n |-> [date |-> Index(n, defaut, k)[r],
                                        Close |-> closes[r], AutreNaN |-> FALSE]]
    /\ pc' = IF data' = <<>> THEN "erreur" ELSE "moyennes"
    /\ UNCHANGED <<ma_cols, data_clean, i, golden_crosses, death_crosses>>
    /\ UNCHANGED <<cases, derniers, synthese>>
    /\ UNCHANGED autres

NextBrut == ChargerDonneesBrutes \/ CalculerMoyennes \/ Detecter \/ Boucle

SpecBrut == Init /\ [][NextBrut]_vars

\* ------------------------------------------------------- synthesis block
\* The values the page reads.  A moving average is NaN while its window is not
\* filled, and the long window fills after the short one.
ValeursMA == (1..MaxPrix) \cup {NaN}
ValeursRSI == {NaN, 0, 29, 30, 31, 69, 70, 71, 100}
ValeursMACD == {0, 1}
\* (lower, upper): both NaN while the window is not filled, else lower <= upper.
ValeursBandes ==
    {<<NaN, NaN>>} \cup {b \in (0..(MaxPrix + 1)) \X (0..(MaxPrix + 1)) : b[1] <= b[2]}

\* Lines 778-787: what the MA state adds to <<signaux_positifs, signaux_negatifs>>.
ContributionMA_neutre(p, m50, m200) ==
    IF Gt(p, m50) /\ Gt(m50, m200) THEN <<PoidsMA, 0>>
    ELSE IF Lt(p, m50) /\ Lt(m50, m200) THEN <<0, PoidsMA>>
    ELSE <<0, 0>>

\* ContributionMA with the weight of one signal for a confirmed trend.
ContributionMA_faible(p, m50, m200) ==
    IF Gt(p, m50) /\ Gt(m50, m200) THEN <<PoidsMixte, 0>>
    ELSE IF Lt(p, m50) /\ Lt(m50, m200) THEN <<0, PoidsMixte>>
    ELSE <<PoidsMixte, PoidsMixte>>

ContributionMA(p, m50, m200) ==
    IF Gt(p, m50) /\ Gt(m50, m200) THEN <<PoidsMA, 0>>
    ELSE IF Lt(p, m50) /\ Lt(m50, m200) THEN <<0, PoidsMA>>
    ELSE <<PoidsMixte, PoidsMixte>>

\* Lines 793-800.
ContributionRSI_large(r) ==
    IF Ge(r, SeuilSurachat) THEN <<0, PoidsRSI>>
    ELSE IF Le(r, SeuilSurvente) THEN <<PoidsRSI, 0>>
    ELSE <<0, 0>>

ContributionRSI(r) ==
    IF Gt(r, SeuilSurachat) THEN <<0, PoidsRSI>>
    ELSE IF Lt(r, SeuilSurvente) THEN <<PoidsRSI, 0>>
    ELSE <<0, 0>>

\* Lines 805-810.
ContributionMACD_large(m, sg) ==
    IF Ge(m, sg) THEN <<PoidsMACD, 0>> ELSE <<0, PoidsMACD>>

ContributionMACD(m, sg) ==
    IF Gt(m, sg) THEN <<PoidsMACD, 0>> ELSE <<0, PoidsMACD>>

\* Lines 820-825.
Verdict_large(pos, neg) ==
    IF pos >= neg THEN "HAUSSIERE"
    ELSE IF neg > pos THEN "BAISSIERE"
    ELSE "NEUTRE"

Verdict(pos, neg) ==
    IF pos > neg THEN "HAUSSIERE"
    ELSE IF neg > pos THEN "BAISSIERE"
    ELSE "NEUTRE"

\* Lines 630-635: the headline recommendation, from the moving averages alone.
Recommandation(p, m50, m200) ==
    IF Gt(p, m50) /\ Gt(m50, m200) THEN "ACHETER"
    ELSE IF Lt(p, m50) /\ Lt(m50, m200) THEN "VENDRE"
    ELSE "ATTENTE"

\* Lines 958-963: the message of the Bollinger section.
MessageBollinger(p, lower, upper) ==
    IF Gt(p, upper) THEN "SURACHAT"
    ELSE IF Lt(p, lower) THEN "SURVENTE"
    ELSE "NORMALE"

\* The page is run with the checkboxes of lines 490-493 in any state.  This
\* specification does not hold the series: each step of the block draws the
\* latest values it reads from the values a series can give them (boundary
\* values of every comparison included).
InitSynthese ==
    /\ AutresAuRepos
    /\ DetecteurAuRepos
    /\ show_ma \in BOOLEAN /\ show_rsi \in BOOLEAN
    /\ show_macd \in BOOLEAN /\ show_bollinger \in BOOLEAN
    /\ prix_actuel = NaN /\ dernier_ma50 = NaN /\ dernier_ma200 = NaN
    /\ rsi_actuel = NaN /\ macd_actuel = NaN /\ signal_actuel = NaN
    /\ upper_actuel = NaN /\ lower_actuel = NaN
    /\ signaux_positifs = 0 /\ signaux_negatifs = 0
    /\ conclusion = "AUCUNE" /\ analyse_bollinger = "AUCUNE"
    /\ pc = "valeurs"

\* Lines 607 and 621-624: the latest close and the latest moving averages.
DernieresValeurs ==
    /\ pc = "valeurs"
    /\ prix_actuel' \in 1..MaxPrix
    /\ dernier_ma50' \in ValeursMA
    /\ dernier_ma200' \in ValeursMA
    /\ dernier_ma50' = NaN => dernier_ma200' = NaN
    /\ pc' = "synthese"
    /\ UNCHANGED <<detecteur, cases, synthese>>
    /\ UNCHANGED autres

\* Lines 765-774: the block is entered only when MA, RSI or MACD is ticked.
EntrerSynthese ==
    /\ pc = "synthese"
    /\ IF show_ma \/ show_rsi \/ show_macd
         THEN /\ signaux_positifs' = 0
              /\ signaux_negatifs' = 0
              /\ pc' = "signal_ma"
         ELSE /\ UNCHANGED <<signaux_positifs, signaux_negatifs>>
              /\ pc' = "bollinger"
    /\ UNCHANGED <<detecteur, cases, derniers, rsi_actuel, macd_actuel, signal_actuel,
                   upper_actuel, lower_actuel, conclusion, analyse_bollinger>>
    /\ UNCHANGED autres

\* Lines 776-787.
SignalMA_toujours ==
    /\ pc = "signal_ma"
    /\ LET c == ContributionMA(prix_actuel, dernier_ma50, dernier_ma200)
       IN  /\ signaux_positifs' = signaux_positifs + c[1]
           /\ signaux_negatifs' = signaux_negatifs + c[2]
    /\ pc' = "signal_rsi"
    /\ UNCHANGED <<detecteur, cases, derniers, rsi_actuel, macd_actuel, signal_actuel,
                   upper_actuel, lower_actuel, conclusion, analyse_bollinger>>
    /\ UNCHANGED autres

SignalMA ==
    /\ pc = "signal_ma"
    /\ LET c == IF show_ma
                  THEN ContributionMA(prix_actuel, dernier_ma50, dernier_ma200)
                  ELSE <<0, 0>>
       IN  /\ signaux_positifs' = signaux_positifs + c[1]
           /\ signaux_negatifs' = signaux_negatifs + c[2]
    /\ pc' = "signal_rsi"
    /\ UNCHANGED <<detecteur, cases, derniers, rsi_actuel, macd_actuel, signal_actuel,
                   upper_actuel, lower_actuel, conclusion, analyse_bollinger>>
    /\ UNCHANGED autres

\* Lines 789-800: rsi_actuel is the last value of calculate_rsi(data).
SignalRSI ==
    /\ pc = "signal_rsi"
    /\ IF show_rsi
         THEN /\ rsi_actuel' \in ValeursRSI
              /\ LET c == ContributionRSI(rsi_actuel')
                 IN  /\ signaux_positifs' = signaux_positifs + c[1]
                     /\ signaux_negatifs' = signaux_negatifs + c[2]
         ELSE UNCHANGED <<rsi_actuel, signaux_positifs, signaux_negatifs>>
    /\ pc' = "signal_macd"
    /\ UNCHANGED <<detecteur, cases, derniers, macd_actuel, signal_actuel,
                   upper_actuel, lower_actuel, conclusion, analyse_bollinger>>
    /\ UNCHANGED autres

\* Lines 802-810: the last values of the two lines of calculate_macd(data).
SignalMACD ==
    /\ pc = "signal_macd"
    /\ IF show_macd
         THEN /\ macd_actuel' \in ValeursMACD
              /\ signal_actuel' \in ValeursMACD
              /\ LET c == ContributionMACD(macd_actuel', signal_actuel')
                 IN  /\ signaux_positifs' = signaux_positifs + c[1]
                     /\ signaux_negatifs' = signaux_negatifs + c[2]
         ELSE UNCHANGED <<macd_actuel, signal_actuel, signaux_positifs, signaux_negatifs>>
    /\ pc' = "conclusion"
    /\ UNCHANGED <<detecteur, cases, derniers, rsi_actuel,
                   upper_actuel, lower_actuel, conclusion, analyse_bollinger>>
    /\ UNCHANGED autres

\* Lines 812-825.
Conclusion ==
    /\ pc = "conclusion"
    /\ conclusion' = Verdict(signaux_positifs, signaux_negatifs)
    /\ pc' = "bollinger"
    /\ UNCHANGED <<detecteur, cases, derniers, rsi_actuel, macd_actuel, signal_actuel,
                   upper_actuel, lower_actuel, signaux_positifs, signaux_negatifs,
                   analyse_bollinger>>
    /\ UNCHANGED autres

\* Lines 918-963: the Bollinger section, the only place of the page that reads
\* the bands.  It shows a message and touches no score.
AnalyseBollinger ==
    /\ pc = "bollinger"
    /\ IF show_bollinger
         THEN /\ \E b \in ValeursBandes : lower_actuel' = b[1] /\ upper_actuel' = b[2]
              /\ analyse_bollinger' = MessageBollinger(prix_actuel, lower_actuel', upper_actuel')
         ELSE UNCHANGED <<lower_actuel, upper_actuel, analyse_bollinger>>
    /\ pc' = "fin"
    /\ UNCHANGED <<detecteur, cases, derniers, rsi_actuel, macd_actuel, signal_actuel,
                   signaux_positifs, signaux_negatifs, conclusion>>
    /\ UNCHANGED autres

NextSynthese ==
    \/ DernieresValeurs
    \/ EntrerSynthese
    \/ SignalMA
    \/ SignalRSI
    \/ SignalMACD
    \/ Conclusion
    \/ AnalyseBollinger

SpecSynthese == InitSynthese /\ [][NextSynthese]_vars

\* ------------------------------------------------- claims on the detector
Dans(s, x) == \E j \in 1..Len(s) : s[j] = x

\* The pair (data_clean[k-1], data_clean[k]) has been walked by the loop.
Parcouru(k) == pc = "retour" \/ (pc = "boucle" /\ k < i)

\* The rows of data where both moving averages are defined.
DatesDefinies ==
    {r \in 1..Len(ma_cols) : ma_cols[r].MA50 # NaN /\ ma_cols[r].MA200 # NaN}

\* In the clean range the fast average goes from below the slow one to above it
\* once and never moves back: strictly below before row m, equal to it on rows
\* m..k-1 (possibly none), strictly above from row k on.  Row k is the crossing.
CroiseUneFoisVersLeHaut(k) ==
    \E m \in 1..k :
       /\ \A j \in 1..(m - 1) : data_clean[j].MA50 < data_clean[j].MA200
       /\ \A j \in m..(k - 1) : data_clean[j].MA50 = data_clean[j].MA200
       /\ \A j \in k..Len(data_clean) : data_clean[j].MA50 > data_clean[j].MA200

\* C1: for every walked pair (prev, curr) of the clean range, curr's date is in
\* golden_crosses iff prev.fast <= prev.slow and curr.fast > curr.slow; and a
\* clean range that crosses upward exactly once, at row k, returns exactly one
\* Golden Cross, at the date of row k, and no Death Cross.
C1_GoldenCross ==
    /\ \A k \in 2..Len(data_clean) :
         Parcouru(k) =>
            (Dans(golden_crosses, data_clean[k].date)
               <=> (/\ data_clean[k - 1].MA50 <= data_clean[k - 1].MA200
                    /\ data_clean[k].MA50 > data_clean[k].MA200))
    /\ pc = "retour" =>
         \A k \in 2..Len(data_clean) :
            CroiseUneFoisVersLeHaut(k) =>
               /\ golden_crosses = <<data_clean[k].date>>
               /\ death_crosses = <<>>

\* C1 witness: a finished run over a clean range that starts below, touches and
\* then crosses upward once.
C1_Witness ==
    /\ pc = "retour"
    /\ Len(data_clean) >= 3
    /\ data_clean[1].MA50 < data_clean[1].MA200
    /\ \E k \in 3..Len(data_clean) :
         /\ CroiseUneFoisVersLeHaut(k)
         /\ data_clean[k - 1].MA50 = data_clean[k - 1].MA200
         /\ golden_crosses = <<data_clean[k].date>>

\* C2: for every walked pair (prev, curr) of the clean range, curr's date is in
\* death_crosses iff prev.fast >= prev.slow and curr.fast < curr.slow: the elif
\* never suppresses a Death Cross.
C2_DeathCross ==
    \A k \in 2..Len(data_clean) :
       Parcouru(k) =>
          (Dans(death_crosses, data_clean[k].date)
             <=> (/\ data_clean[k - 1].MA50 >= data_clean[k - 1].MA200
                  /\ data_clean[k].MA50 < data_clean[k].MA200))

\* C2 witness: a finished run that recorded a Death Cross coming from a row
\* where the two averages were equal, after having recorded a Golden Cross.
C2_Witness ==
    /\ pc = "retour"
    /\ golden_crosses # <<>>
    /\ \E k \in 2..Len(data_clean) :
         /\ data_clean[k - 1].MA50 = data_clean[k - 1].MA200
         /\ data_clean[k].MA50 < data_clean[k].MA200
         /\ Dans(death_crosses, data_clean[k].date)

\* C3: no date is in both golden_crosses and death_crosses.
C3_Exclusifs ==
    \A a \in 1..Len(golden_crosses) :
       \A b \in 1..Len(death_crosses) : golden_crosses[a] # death_crosses[b]

\* C3 witness: a finished run that returned a Golden Cross immediately followed
\* by a Death Cross.
C3_Witness ==
    /\ pc = "retour"
    /\ \E a \in 1..Len(golden_crosses) :
         \E b \in 1..Len(death_crosses) : death_crosses[b] = golden_crosses[a] + 1

\* C4: with fewer than 2 dates where both averages are defined the detector
\* returns two empty lists; and the first date of the clean range is in
\* neither list.
C4_PremierPoint ==
    /\ (pc = "retour" /\ Cardinality(DatesDefinies) < 2) =>
          (golden_crosses = <<>> /\ death_crosses = <<>>)
    /\ Len(data_clean) >= 1 =>
          /\ ~Dans(golden_crosses, data_clean[1].date)
          /\ ~Dans(death_crosses, data_clean[1].date)

\* C4 witness: a finished run whose first transition is a Golden Cross (the
\* first clean date is still in neither list).
C4_Witness ==
    /\ pc = "retour"
    /\ Len(data_clean) >= 2
    /\ data_clean[1].MA50 <= data_clean[1].MA200
    /\ data_clean[2].MA50 > data_clean[2].MA200
    /\ golden_crosses # <<>>
    /\ golden_crosses[1] = data_clean[2].date

\* C5: the clean range is exactly the set of dates where both averages are
\* defined, whatever the other fields of the bar hold.
C5_PlageNette ==
    pc \in {"boucle", "retour"} =>
       {data_clean[k].date : k \in 1..Len(data_clean)} = DatesDefinies

\* ------------------------------------------- claims on the synthesis block
\* C6: when MA is ticked, the MA step adds exactly 2 to signaux_positifs and 0
\* to signaux_negatifs if price > MA50 > MA200, exactly 2 to signaux_negatifs
\* and 0 to signaux_positifs if price < MA50 < MA200, and exactly 1 to each in
\* every other case.
C6_SignalMA ==
    [][(pc = "signal_ma" /\ show_ma) =>
         IF Gt(prix_actuel, dernier_ma50) /\ Gt(dernier_ma50, dernier_ma200)
           THEN /\ signaux_positifs' = signaux_positifs + 2
                /\ signaux_negatifs' = signaux_negatifs
           ELSE IF Lt(prix_actuel, dernier_ma50) /\ Lt(dernier_ma50, dernier_ma200)
                  THEN /\ signaux_negatifs' = signaux_negatifs + 2
                       /\ signaux_positifs' = signaux_positifs
                  ELSE /\ signaux_positifs' = signaux_positifs + 1
                       /\ signaux_negatifs' = signaux_negatifs + 1]_vars

\* C6 witness: the MA step has run on a mixed state (price below MA50, MA50
\* above MA200) and left 1 on each side.
C6_Witness ==
    /\ pc = "signal_rsi"
    /\ show_ma
    /\ Lt(prix_actuel, dernier_ma50) /\ Gt(dernier_ma50, dernier_ma200)
    /\ signaux_positifs = 1
    /\ signaux_negatifs = 1

\* C7: when RSI is ticked, the RSI step adds 1 to signaux_negatifs iff the RSI
\* is above 70, adds 1 to signaux_positifs iff it is below 30, and changes
\* neither score when 30 <= RSI <= 70.
C7_SignalRSI ==
    [][(pc = "signal_rsi" /\ show_rsi) =>
         /\ signaux_negatifs' \in {signaux_negatifs, signaux_negatifs + 1}
         /\ signaux_positifs' \in {signaux_positifs, signaux_positifs + 1}
         /\ signaux_negatifs' = signaux_negatifs + 1
               <=> (rsi_actuel' # NaN /\ rsi_actuel' > 70)
         /\ signaux_positifs' = signaux_positifs + 1
               <=> (rsi_actuel' # NaN /\ rsi_actuel' < 30)
         /\ (rsi_actuel' # NaN /\ rsi_actuel' >= 30 /\ rsi_actuel' <= 70)
               => UNCHANGED <<signaux_positifs, signaux_negatifs>>]_vars

\* C7 witness: the RSI step has run alone on an RSI of exactly 70 and both
\* scores are still 0.
C7_Witness ==
    /\ pc = "signal_macd"
    /\ show_rsi /\ ~show_ma
    /\ rsi_actuel = 70
    /\ signaux_positifs = 0
    /\ signaux_negatifs = 0

\* C8: when MACD is ticked, the MACD step adds exactly 1 to exactly one score:
\* to signaux_positifs iff the MACD line is above the signal line, otherwise
\* (equality included) to signaux_negatifs.
C8_SignalMACD ==
    [][(pc = "signal_macd" /\ show_macd) =>
         IF macd_actuel' > signal_actuel'
           THEN /\ signaux_positifs' = signaux_positifs + 1
                /\ signaux_negatifs' = signaux_negatifs
           ELSE /\ signaux_negatifs' = signaux_negatifs + 1
                /\ signaux_positifs' = signaux_positifs]_vars

\* C8 witness: the MACD step has run alone with the MACD line equal to the
\* signal line and counted 1 on the negative side.
C8_Witness ==
    /\ pc = "conclusion"
    /\ show_macd /\ ~show_ma /\ ~show_rsi
    /\ macd_actuel = signal_actuel
    /\ signaux_positifs = 0
    /\ signaux_negatifs = 1

\* What MA, RSI and MACD add to <<positive, negative>>, as C6, C7 and C8 state it.
AttenduSansBollinger ==
    LET ma == IF ~show_ma THEN <<0, 0>>
              ELSE IF Gt(prix_actuel, dernier_ma50) /\ Gt(dernier_ma50, dernier_ma200)
                     THEN <<2, 0>>
              ELSE IF Lt(prix_actuel, dernier_ma50) /\ Lt(dernier_ma50, dernier_ma200)
                     THEN <<0, 2>>
              ELSE <<1, 1>>
        c_rsi == IF ~show_rsi THEN <<0, 0>>
               ELSE IF Gt(rsi_actuel, 70) THEN <<0, 1>>
               ELSE IF Lt(rsi_actuel, 30) THEN <<1, 0>>
               ELSE <<0, 0>>
        macd == IF ~show_macd THEN <<0, 0>>
                ELSE IF Gt(macd_actuel, signal_actuel) THEN <<1, 0>>
                ELSE <<0, 1>>
    IN  <<ma[1] + c_rsi[1] + macd[1], ma[2] + c_rsi[2] + macd[2]>>

\* C9: when Bollinger is ticked, the scores of the finished page hold, on top of
\* what MA, RSI and MACD add, 1 more on the negative side if the latest price is
\* above the upper band and 1 more on the positive side if it is below the lower
\* band.
C9_Bollinger ==
    (pc = "fin" /\ show_bollinger) =>
       /\ signaux_positifs
            = AttenduSansBollinger[1] + (IF Lt(prix_actuel, lower_actuel) THEN 1 ELSE 0)
       /\ signaux_negatifs
            = AttenduSansBollinger[2] + (IF Gt(prix_actuel, upper_actuel) THEN 1 ELSE 0)

Masque(actif, v) == IF actif THEN v ELSE NaN

\* <<positive, negative, action>> computed from the ticked set and from values
\* that carry nothing of an indicator that is not ticked.
ResultatDe(ma, avec_rsi, macd, p, m50, m200, r, m, sg) ==
    LET a == IF ~ma THEN <<0, 0>>
             ELSE IF Gt(p, m50) /\ Gt(m50, m200) THEN <<2, 0>>
             ELSE IF Lt(p, m50) /\ Lt(m50, m200) THEN <<0, 2>>
             ELSE <<1, 1>>
        b == IF ~avec_rsi THEN <<0, 0>>
             ELSE IF Gt(r, 70) THEN <<0, 1>>
             ELSE IF Lt(r, 30) THEN <<1, 0>>
             ELSE <<0, 0>>
        c == IF ~macd THEN <<0, 0>>
             ELSE IF Gt(m, sg) THEN <<1, 0>>
             ELSE <<0, 1>>
        pos == a[1] + b[1] + c[1]
        neg == a[2] + b[2] + c[2]
    IN  <<pos, neg,
          IF ~(ma \/ avec_rsi \/ macd) THEN "AUCUNE"
          ELSE IF pos > neg THEN "HAUSSIERE"
          ELSE IF neg > pos THEN "BAISSIERE"
          ELSE "NEUTRE">>

\* C11: the scores and the action of a finished synthesis are a function of the
\* ticked set and of the latest values of the ticked indicators alone: the
\* values of an indicator that is not ticked (masked here) change nothing, and
\* the same inputs always give the same result.
C11_SeulsLesActifs ==
    pc \in {"bollinger", "fin"} =>
       <<signaux_positifs, signaux_negatifs, conclusion>>
          = ResultatDe(show_ma, show_rsi, show_macd,
                       Masque(show_ma, prix_actuel),
                       Masque(show_ma, dernier_ma50),
                       Masque(show_ma, dernier_ma200),
                       Masque(show_rsi, rsi_actuel),
                       Masque(show_macd, macd_actuel),
                       Masque(show_macd, signal_actuel))

\* C11 witness: MA is not ticked while its values are bullish (price > MA50 >
\* MA200); RSI alone is ticked and below 30, and the result is 1/0, Buy.
C11_Witness ==
    /\ pc = "fin"
    /\ ~show_ma /\ show_rsi /\ ~show_macd
    /\ Gt(prix_actuel, dernier_ma50) /\ Gt(dernier_ma50, dernier_ma200)
    /\ rsi_actuel = 29
    /\ signaux_positifs = 1
    /\ signaux_negatifs = 0
    /\ conclusion = "HAUSSIERE"

\* C12: a ticked indicator whose latest value is undefined adds nothing: after
\* the MA step on an undefined moving average both scores are still 0, and
\* after the RSI step alone on an undefined RSI both scores are still 0.
C12_IndefiniOmis ==
    /\ (/\ pc = "signal_rsi"
        /\ show_ma
        /\ (dernier_ma50 = NaN \/ dernier_ma200 = NaN))
          => (signaux_positifs = 0 /\ signaux_negatifs = 0)
    /\ (/\ pc = "signal_macd"
        /\ ~show_ma /\ show_rsi
        /\ rsi_actuel = NaN)
          => (signaux_positifs = 0 /\ signaux_negatifs = 0)

\* ------------------------------------------------------ extended rationals
\* The indicator functions divide, so their values are held as exact fractions
\* <<n, d>> in lowest terms with d >= 0.  d = 0 holds the special doubles:
\* <<1, 0>> is +inf, <<0 - 1, 0>> is -inf and <<0, 0>> is NaN.  The sign of a
\* zero is not kept.
Abs(n) == IF n < 0 THEN 0 - n ELSE n

Signe(n) == IF n < 0 THEN 0 - 1 ELSE IF n > 0 THEN 1 ELSE 0

RECURSIVE PGCD(_, _)
PGCD(a, b) == IF b = 0 THEN a ELSE PGCD(b, a % b)

Frac(n, d) ==
    IF d = 0 THEN <<Signe(n), 0>>
    ELSE LET g == PGCD(Abs(n), Abs(d)) IN <<(Signe(d) * n) \div g, Abs(d) \div g>>

QNaN == <<0, 0>>

Inf == <<1, 0>>

Entier(n) == <<n, 1>>

Fini(x) == x[2] # 0

Plus(x, y) ==
    IF Fini(x) /\ Fini(y)
      THEN LET l == (x[2] \div PGCD(x[2], y[2])) * y[2]
           IN  Frac(x[1] * (l \div x[2]) + y[1] * (l \div y[2]), l)
    ELSE IF x = QNaN \/ y = QNaN THEN QNaN
    ELSE IF Fini(y) THEN x
    ELSE IF Fini(x) THEN y
    ELSE IF x = y THEN x ELSE QNaN

Neg(x) == <<0 - x[1], x[2]>>

Moins(x, y) == Plus(x, Neg(y))

Fois(x, y) == Frac(x[1] * y[1], x[2] * y[2])

\* Division of doubles: x/0 is an infinity or NaN, never an exception.
Div(x, y) == Fois(x, Frac(y[2], y[1]))

EnEntiers(x) == [r \in 1..Len(x) |-> Entier(x[r])]

\* ------------------------------------------------------ indicator functions
\* x[a] + ... + x[b] for a series of integers.
RECURSIVE SommeSerie(_, _, _)
SommeSerie(x, a, b) == IF a > b THEN 0 ELSE SommeSerie(x, a, b - 1) + x[b]

\* Series.rolling(window=w).mean() at row r of a series of integers.
MoyenneMobile_somme(x, w, r) == IF r < w THEN QNaN ELSE Entier(SommeSerie(x, r - w + 1, r))

MoyenneMobile(x, w, r) == IF r < w THEN QNaN ELSE Frac(SommeSerie(x, r - w + 1, r), w)

\* Series.rolling(window=w).std() at row r, squared: the sample variance
\* (ddof = 1), which is 0/0 for a window of one row.
Variance(x, w, r) ==
    IF r < w THEN QNaN
    ELSE LET s  == SommeSerie(x, r - w + 1, r)
             s2 == SommeSerie([k \in 1..Len(x) |-> x[k] * x[k]], r - w + 1, r)
         IN  Div(Frac(w * s2 - s * s, w), Entier(w - 1))

\* Line 26: Series.diff(); its first row is NaN.
diff(x) == [r \in 1..Len(x) |-> IF r = 1 THEN NaN ELSE x[r] - x[r - 1]]

\* Line 27: delta.where(delta > 0, 0); a NaN delta fails the test and becomes 0.
Gains(x) == [r \in 1..Len(x) |-> IF Gt(diff(x)[r], 0) THEN diff(x)[r] ELSE 0]

\* Line 28: -delta.where(delta < 0, 0).
Pertes(x) == [r \in 1..Len(x) |-> IF Lt(diff(x)[r], 0) THEN 0 - diff(x)[r] ELSE 0]

\* Lines 29-30 with 100 / rs in place of 100 / (1 + rs).
RSIde_sans_un(g, l) == Moins(Entier(100), Div(Entier(100), Div(g, l)))

\* Lines 29-30.
RSIde(g, l) == Moins(Entier(100), Div(Entier(100), Plus(Entier(1), Div(g, l))))

\* 1 - alpha for alpha = 2 / (span + 1).
UnMoinsAlpha(span) == Frac(span - 1, span + 1)

\* Series.ewm(span=span, adjust=False).mean(): y_t = (1-alpha) y_(t-1) + alpha x_t.
RECURSIVE Ewm_recursif(_, _, _)
Ewm_recursif(x, span, t) ==
    IF t = 1 THEN <<x[1], Entier(1)>>
    ELSE LET prev == Ewm_recursif(x, span, t - 1)
         IN  <<Plus(Fois(UnMoinsAlpha(span), prev[1]),
                    Fois(Moins(Entier(1), UnMoinsAlpha(span)), x[t])), Entier(1)>>

\* Series.ewm(span=span).mean() (adjust=True) as pandas computes it: the pair
\* <<weighted, old_wt>> after row t.  Each row multiplies old_wt by 1 - alpha,
\* replaces weighted by (old_wt * weighted + cur) / (old_wt + 1) unless cur
\* equals it already, and adds the new weight 1 to old_wt.
RECURSIVE Ewm(_, _, _)
Ewm(x, span, t) ==
    IF t = 1 THEN <<x[1], Entier(1)>>
    ELSE LET prev   == Ewm(x, span, t - 1)
             old_wt == Fois(prev[2], UnMoinsAlpha(span))
         IN  <<IF prev[1] = x[t] THEN prev[1]
               ELSE Div(Plus(Fois(old_wt, prev[1]), x[t]), Plus(old_wt, Entier(1))),
               Plus(old_wt, Entier(1))>>

ewm_mean(x, span) == [t \in 1..Len(x) |-> Ewm(x, span, t)[1]]

\* Lines 46-47: sma + std * std_dev and sma - std * std_dev.  The value of a
\* band is centre + signe * sqrt(ecart2).
Bande(c, v, sg) == [centre |-> c, ecart2 |-> Fois(Entier(std_dev * std_dev), v), signe |-> sg]

\* ------------------------------------------ the indicators on a price series
\* The series handed to the indicator functions: every series of at most
\* MaxLenInd closes in 1..MaxCours, and one rising series.
Series == (UNION {[1..n -> 1..MaxCours] : n \in 0..MaxLenInd}) \cup {<<10, 11, 12>>}

\* The spans of calculate_macd (12, 26 and 9 by default), scaled down.
Spans == {1, 2, 3}

InitIndicateurs ==
    /\ DetecteurAuRepos
    /\ SyntheseAuRepos
    /\ prix_actuel = NaN /\ dernier_ma50 = NaN /\ dernier_ma200 = NaN
    /\ close \in Series
    /\ period \in 1..MaxPeriode
    /\ fast \in Spans /\ slow \in Spans /\ signal \in Spans
    /\ gain = <<>> /\ loss = <<>> /\ rsi = <<>>
    /\ ema_fast = <<>> /\ ema_slow = <<>>
    /\ macd_line = <<>> /\ signal_line = <<>> /\ histogram = <<>>
    /\ sma = <<>> /\ std = <<>> /\ upper_band = <<>> /\ lower_band = <<>>
    /\ SignauxAuRepos
    /\ pc = "rsi"

\* calculate_rsi with a scalar division, which raises on a zero divisor.
calculate_rsi_python ==
    /\ pc = "rsi"
    /\ gain' = [r \in 1..Len(close) |-> MoyenneMobile(Gains(close), period, r)]
    /\ loss' = [r \in 1..Len(close) |-> MoyenneMobile(Pertes(close), period, r)]
    /\ IF \E r \in 1..Len(close) : loss'[r] = Entier(0)
         THEN rsi' = rsi /\ pc' = "ZeroDivisionError"
         ELSE rsi' = [r \in 1..Len(close) |-> RSIde(gain'[r], loss'[r])] /\ pc' = "macd"
    /\ UNCHANGED <<close, period, fast, slow, signal, ema_fast, ema_slow, macd_line,
                   signal_line, histogram, sma, std, upper_band, lower_band>>
    /\ UNCHANGED <<detecteur, cases, derniers, synthese, signaux>>

\* Lines 24-31.
calculate_rsi ==
    /\ pc = "rsi"
    /\ gain' = [r \in 1..Len(close) |-> MoyenneMobile(Gains(close), period, r)]
    /\ loss' = [r \in 1..Len(close) |-> MoyenneMobile(Pertes(close), period, r)]
    /\ rsi' = [r \in 1..Len(close) |-> RSIde(gain'[r], loss'[r])]
    /\ pc' = "macd"
    /\ UNCHANGED <<close, period, fast, slow, signal, ema_fast, ema_slow, macd_line,
                   signal_line, histogram, sma, std, upper_band, lower_band>>
    /\ UNCHANGED <<detecteur, cases, derniers, synthese, signaux>>

\* Lines 33-40.
calculate_macd ==
    /\ pc = "macd"
    /\ ema_fast' = ewm_mean(EnEntiers(close), fast)
    /\ ema_slow' = ewm_mean(EnEntiers(close), slow)
    /\ macd_line' = [t \in 1..Len(close) |-> Moins(ema_fast'[t], ema_slow'[t])]
    /\ signal_line' = ewm_mean(macd_line', signal)
    /\ histogram' = [t \in 1..Len(close) |-> Moins(macd_line'[t], signal_line'[t])]
    /\ pc' = "bollinger_bands"
    /\ UNCHANGED <<close, period, fast, slow, signal, gain, loss, rsi,
                   sma, std, upper_band, lower_band>>
    /\ UNCHANGED <<detecteur, cases, derniers, synthese, signaux>>

\* Lines 42-48.
calculate_bollinger_bands ==
    /\ pc = "bollinger_bands"
    /\ sma' = [r \in 1..Len(close) |-> MoyenneMobile(close, period, r)]
    /\ std' = [r \in 1..Len(close) |-> Variance(close, period, r)]
    /\ upper_band' = [r \in 1..Len(close) |-> Bande(sma'[r], std'[r], 1)]
    /\ lower_band' = [r \in 1..Len(close) |-> Bande(sma'[r], std'[r], 0 - 1)]
    /\ pc' = "calcule"
    /\ UNCHANGED <<close, period, fast, slow, signal, gain, loss, rsi, ema_fast, ema_slow,
                   macd_line, signal_line, histogram>>
    /\ UNCHANGED <<detecteur, cases, derniers, synthese, signaux>>

NextIndicateurs ==
    \/ calculate_rsi
    \/ calculate_macd
    \/ calculate_bollinger_bands

SpecIndicateurs == InitIndicateurs /\ [][NextIndicateurs]_vars

\* ---------------------------------------------- the batch of sidebar signals
\* What yf.Ticker(sym).history(period="1y") does for one ticker: it raises, or
\* it returns a frame (empty, rising, falling, or too short for MA200).
Reponses ==
    { [etat |-> "exception", Close |-> <<>>],
      [etat |-> "ok", Close |-> <<>>],
      [etat |-> "ok", Close |-> <<1, 2, 3>>],
      [etat |-> "ok", Close |-> <<3, 2, 1>>],
      [etat |-> "ok", Close |-> <<1, 2>>] }

Rien == [etat |-> "rien", Close |-> <<>>]

Etendue(s) == {s[k] : k \in 1..Len(s)}

\* The argument of get_all_signals: the keys of a dict, so no ticker twice.
\* The lists drawn are those in ascending and those in descending order.
ListesDeTickers ==
    {s \in UNION {[1..n -> 1..NbTickers] : n \in 0..NbTickers} :
        \/ \A a, b \in 1..Len(s) : a < b => s[a] < s[b]
        \/ \A a, b \in 1..Len(s) : a < b => s[a] > s[b]}

\* Lines 353-368: the label _signal returns for what the provider answered.
Etiquette(rep) ==
    IF rep.etat = "exception" THEN "Neutre"
    ELSE LET d == [r \in 1..Len(rep.Close) |-> [Close |-> rep.Close[r]]]
         IN  IF d = <<>> THEN "Neutre"
             ELSE LET p    == d[Len(d)].Close * Echelle
                      m50  == rolling_mean(d, FastWindow, Len(d))
                      m200 == rolling_mean(d, SlowWindow, Len(d))
                  IN  IF Gt(p, m50) /\ Gt(m50, m200) THEN "Acheter"
                      ELSE IF Lt(p, m50) /\ Lt(m50, m200) THEN "Vendre"
                      ELSE "Attente"

EnAttente == [fait |-> FALSE, exc |-> FALSE, sym |-> 0, label |-> ""]

Libre == [tache |-> 0, d |-> Rien]

InitSignaux ==
    /\ DetecteurAuRepos
    /\ SyntheseAuRepos
    /\ IndicateursAuRepos
    /\ prix_actuel = NaN /\ dernier_ma50 = NaN /\ dernier_ma200 = NaN
    /\ tickers_list \in ListesDeTickers
    /\ reponse \in [Etendue(tickers_list) -> Reponses]
    /\ file = <<>>
    /\ workers = [w \in 1..MaxWorkers |-> Libre]
    /\ futures = <<>>
    /\ collectes = 0
    /\ results = <<>>
    /\ cache = Absent /\ lu = Absent /\ lectures = 0
    /\ pc = "get_all_signals"

\* Line 370, ex.map: one task per ticker is submitted, in the order of the list.
Soumettre ==
    /\ pc = "get_all_signals"
    /\ file' = [k \in 1..Len(tickers_list) |-> k]
    /\ futures' = [k \in 1..Len(tickers_list) |-> EnAttente]
    /\ pc' = "map"
    /\ UNCHANGED <<tickers_list, reponse, workers, collectes, results, cache, lu, lectures>>
    /\ UNCHANGED <<detecteur, cases, derniers, synthese, indicateurs>>

\* Demarrer without the limit of the pool: a thread takes a task even while it
\* runs one.
Demarrer_sans_limite(w) ==
    /\ file # <<>>
    /\ workers' = [workers EXCEPT ![w] = [tache |-> Head(file),
                                          d |-> reponse[tickers_list[Head(file)]]]]
    /\ file' = Tail(file)
    /\ UNCHANGED <<tickers_list, reponse, futures, collectes, results, cache, lu, lectures>>
    /\ UNCHANGED <<pc, detecteur, cases, derniers, synthese, indicateurs>>

\* A free worker thread takes the oldest task and calls the provider (line 354).
Demarrer(w) ==
    /\ workers[w].tache = 0
    /\ file # <<>>
    /\ workers' = [workers EXCEPT ![w] = [tache |-> Head(file),
                                          d |-> reponse[tickers_list[Head(file)]]]]
    /\ file' = Tail(file)
    /\ UNCHANGED <<tickers_list, reponse, futures, collectes, results, cache, lu, lectures>>
    /\ UNCHANGED <<pc, detecteur, cases, derniers, synthese, indicateurs>>

\* _signal without its try/except: an exception of the provider ends the task
\* and is kept in the future.
Terminer_sans_except(w) ==
    /\ workers[w].tache # 0
    /\ futures' = [futures EXCEPT ![workers[w].tache] =
                     IF workers[w].d.etat = "exception"
                       THEN [fait |-> TRUE, exc |-> TRUE, sym |-> 0, label |-> ""]
                       ELSE [fait |-> TRUE, exc |-> FALSE,
                             sym |-> tickers_list[workers[w].tache],
                             label |-> Etiquette(workers[w].d)]]
    /\ workers' = [workers EXCEPT ![w] = Libre]
    /\ UNCHANGED <<tickers_list, reponse, file, collectes, results, cache, lu, lectures>>
    /\ UNCHANGED <<pc, detecteur, cases, derniers, synthese, indicateurs>>

\* Lines 353-368: the task returns the pair (sym, label), whatever happened.
Terminer(w) ==
    /\ workers[w].tache # 0
    /\ futures' = [futures EXCEPT ![workers[w].tache] =
                     [fait |-> TRUE, exc |-> FALSE,
                      sym |-> tickers_list[workers[w].tache],
                      label |-> Etiquette(workers[w].d)]]
    /\ workers' = [workers EXCEPT ![w] = Libre]
    /\ UNCHANGED <<tickers_list, reponse, file, collectes, results, cache, lu, lectures>>
    /\ UNCHANGED <<pc, detecteur, cases, derniers, synthese, indicateurs>>

\* Collecter, storing every pair in the cache as soon as it is consumed.
Collecter_publie ==
    /\ pc = "map"
    /\ collectes < Len(tickers_list)
    /\ futures[collectes + 1].fait
    /\ IF futures[collectes + 1].exc
         THEN pc' = "exception" /\ UNCHANGED <<collectes, results, cache>>
         ELSE /\ results' = (futures[collectes + 1].sym :> futures[collectes + 1].label)
                               @@ results
              /\ cache' = [present |-> TRUE, valeur |-> results']
              /\ collectes' = collectes + 1
              /\ pc' = pc
    /\ UNCHANGED <<tickers_list, reponse, file, workers, futures, lu, lectures>>
    /\ UNCHANGED <<detecteur, cases, derniers, synthese, indicateurs>>

\* Line 370, dict(ex.map(...)): the main thread consumes the futures in the
\* order of the list, waiting for each; a future that holds an exception
\* raises it here, out of get_all_signals.
Collecter ==
    /\ pc = "map"
    /\ collectes < Len(tickers_list)
    /\ futures[collectes + 1].fait
    /\ IF futures[collectes + 1].exc
         THEN pc' = "exception" /\ UNCHANGED <<collectes, results>>
         ELSE /\ results' = (futures[collectes + 1].sym :> futures[collectes + 1].label)
                               @@ results
              /\ collectes' = collectes + 1
              /\ pc' = pc
    /\ UNCHANGED <<tickers_list, reponse, file, workers, futures, cache, lu, lectures>>
    /\ UNCHANGED <<detecteur, cases, derniers, synthese, indicateurs>>

\* Lines 369-370: the with block ends once every pair is in the dict.
FermerExecuteur ==
    /\ pc = "map"
    /\ collectes = Len(tickers_list)
    /\ pc' = "return"
    /\ UNCHANGED <<signaux, detecteur, cases, derniers, synthese, indicateurs>>

\* Lines 349 and 371: the dict is returned and st.cache_data stores it.
Retourner ==
    /\ pc = "return"
    /\ cache' = [present |-> TRUE, valeur |-> results]
    /\ pc' = "signaux_cache"
    /\ UNCHANGED <<tickers_list, reponse, file, workers, futures, collectes, results, lu,
                   lectures>>
    /\ UNCHANGED <<detecteur, cases, derniers, synthese, indicateurs>>

\* Another run of the script looks the entry up (line 380), at any moment.
LireCache ==
    /\ lectures < MaxLectures
    /\ lu' = cache
    /\ lectures' = lectures + 1
    /\ UNCHANGED <<tickers_list, reponse, file, workers, futures, collectes, results, cache>>
    /\ UNCHANGED <<pc, detecteur, cases, derniers, synthese, indicateurs>>

NextSignaux ==
    \/ Soumettre
    \/ \E w \in 1..MaxWorkers : Demarrer(w)
    \/ \E w \in 1..MaxWorkers : Terminer(w)
    \/ Collecter
    \/ FermerExecuteur
    \/ Retourner
    \/ LireCache

SpecSignaux == InitSignaux /\ [][NextSignaux]_vars

\* ------------------------------------------------ claims on the indicators
\* The sum of the closes of rows a..b of data.
RECURSIVE SommeDesCloses(_, _)
SommeDesCloses(a, b) == IF a > b THEN 0 ELSE data[a].Close + SommeDesCloses(a + 1, b)

\* Column v of ma_cols is the rolling mean of window n: one entry per row,
\* undefined on the first n-1 rows, and on every later row n times the entry is
\* the sum of the n closes ending there (entries are held times Echelle).
EstMoyenneGlissante(v, n) ==
    \A r \in 1..Len(data) :
       /\ v[r] # NaN <=> r >= n
       /\ r >= n => v[r] * n = Echelle * SommeDesCloses(r - n + 1, r)

\* C13: for every series and window n the rolling mean at (0-based) index i is
\* defined iff i >= n-1 and is then the arithmetic mean of the n closes ending
\* at i; it is undefined before, and everywhere when n exceeds the length.
C13_MoyenneGlissante ==
    ma_cols # <<>> =>
       /\ Len(ma_cols) = Len(data)
       /\ EstMoyenneGlissante([r \in 1..Len(ma_cols) |-> ma_cols[r].MA50], FastWindow)
       /\ EstMoyenneGlissante([r \in 1..Len(ma_cols) |-> ma_cols[r].MA200], SlowWindow)

\* C13 witness: the columns of a series longer than the slow window whose
\* closes are not all equal: MA200 is undefined just before the window fills
\* and defined from there on.
C13_Witness ==
    /\ ma_cols # <<>>
    /\ Len(data) > SlowWindow
    /\ data[1].Close # data[2].Close
    /\ ma_cols[SlowWindow - 1].MA200 = NaN
    /\ ma_cols[SlowWindow].MA200 # NaN
    /\ ma_cols[Len(data)].MA200 # ma_cols[SlowWindow].MA200

Constante(x) == \A a, b \in 1..Len(x) : x[a] = x[b]

\* The band b is defined and has the value v.
BandeVaut(b, v) == b.centre = v /\ b.ecart2 = Entier(0)

BandeDefinie(b) == Fini(b.centre) /\ Fini(b.ecart2)

\* C14: on a constant series at least as long as the window, the rolling and
\* the exponential means equal the constant wherever they are defined, the
\* upper and the lower Bollinger band equal the middle one wherever they are
\* defined, and the MACD line and the signal line are 0 on every row.
C14_SerieConstante ==
    pc = "calcule" /\ Constante(close) /\ Len(close) >= period =>
       \A r \in 1..Len(close) :
          /\ Fini(sma[r]) => sma[r] = Entier(close[r])
          /\ ema_fast[r] = Entier(close[r]) /\ ema_slow[r] = Entier(close[r])
          /\ BandeDefinie(upper_band[r]) => BandeVaut(upper_band[r], sma[r])
          /\ BandeDefinie(lower_band[r]) => BandeVaut(lower_band[r], sma[r])
          /\ macd_line[r] = Entier(0)
          /\ signal_line[r] = Entier(0)

\* C14 witness: a constant series of full length, a window of two rows and two
\* different spans: the bands are defined on row 2 and collapse on the mean.
C14_Witness ==
    /\ pc = "calcule" /\ Constante(close) /\ Len(close) = MaxLenInd
    /\ period = 2 /\ fast # slow
    /\ sma[1] = QNaN /\ sma[2] = Entier(close[1])
    /\ BandeDefinie(upper_band[2]) /\ BandeVaut(lower_band[2], sma[2])
    /\ macd_line[MaxLenInd] = Entier(0) /\ signal_line[MaxLenInd] = Entier(0)

\* C15: calculate_rsi never raises; on a row where the average loss is 0 and
\* the average gain is positive the RSI is exactly 100, and on a row where both
\* averages are 0 the RSI is NaN.
C15_RSIDegenere ==
    /\ pc # "ZeroDivisionError"
    /\ pc \in {"macd", "bollinger_bands", "calcule"} =>
          /\ Len(rsi) = Len(close)
          /\ \A r \in 1..Len(close) :
                /\ loss[r] = Entier(0) /\ Fini(gain[r]) /\ gain[r][1] > 0
                      => rsi[r] = Entier(100)
                /\ loss[r] = Entier(0) /\ gain[r] = Entier(0) => rsi[r] = QNaN

\* C15 witness: an RSI series with a row of each degenerate kind.
C15_Witness ==
    /\ pc = "macd"
    /\ \E r \in 1..Len(close) :
          loss[r] = Entier(0) /\ Fini(gain[r]) /\ gain[r][1] > 0 /\ rsi[r] = Entier(100)
    /\ \E r \in 1..Len(close) :
          loss[r] = Entier(0) /\ gain[r] = Entier(0) /\ rsi[r] = QNaN

\* q^k for a fraction q.
RECURSIVE Puissance(_, _)
Puissance(q, k) == IF k = 0 THEN Entier(1) ELSE Fois(q, Puissance(q, k - 1))

\* The sum of q^j * x[t-j] for j in 0..k.
RECURSIVE SommePonderee(_, _, _, _)
SommePonderee(x, q, t, k) ==
    IF k < 0 THEN Entier(0)
    ELSE Plus(Fois(Puissance(q, k), x[t - k]), SommePonderee(x, q, t, k - 1))

\* The bias-corrected exponential mean of x at row t (position t-1).
FormeFermee(x, span, t) ==
    Div(SommePonderee(x, UnMoinsAlpha(span), t, t - 1),
        SommePonderee([k \in 1..Len(x) |-> Entier(1)], UnMoinsAlpha(span), t, t - 1))

\* C16: the exponential means of calculate_macd are the bias-corrected ones,
\* the weighted sum of the rows so far over the sum of the weights (1-alpha)^j
\* with alpha = 2/(span+1); so they equal the first close on the first row and
\* 32/3 on the second row of the closes 10, 11, ... with span 3; and the MACD
\* line, the signal line and the histogram are defined on every row.
C16_EwmAjuste ==
    pc \in {"bollinger_bands", "calcule"} =>
       /\ Len(macd_line) = Len(close)
       /\ Len(signal_line) = Len(close)
       /\ Len(histogram) = Len(close)
       /\ \A t \in 1..Len(close) :
             /\ ema_fast[t] = FormeFermee(EnEntiers(close), fast, t)
             /\ ema_slow[t] = FormeFermee(EnEntiers(close), slow, t)
             /\ macd_line[t] = Moins(ema_fast[t], ema_slow[t])
             /\ signal_line[t] = FormeFermee(macd_line, signal, t)
             /\ histogram[t] = Moins(macd_line[t], signal_line[t])
             /\ Fini(macd_line[t]) /\ Fini(signal_line[t]) /\ Fini(histogram[t])
       /\ Len(close) >= 1 => ema_fast[1] = Entier(close[1])
       /\ Len(close) >= 2 /\ close[1] = 10 /\ close[2] = 11 /\ fast = 3
             => ema_fast[1] = Entier(10) /\ ema_fast[2] = Frac(32, 3)

\* C16 witness: the closes 10, 11, 12 with the fast span 3 and another slow
\* span: 32/3 on the second row and a MACD line that is not 0.
C16_Witness ==
    /\ pc = "calcule"
    /\ close = <<10, 11, 12>> /\ fast = 3 /\ slow = 2 /\ signal = 3
    /\ ema_fast[2] = Frac(32, 3)
    /\ macd_line[1] = Entier(0) /\ macd_line[3] # Entier(0)
    /\ Fini(histogram[3]) /\ histogram[3] # Entier(0)

\* ------------------------------------------- claims on the batch of signals
Recommandations == {"Acheter", "Vendre", "Attente", "Neutre"}

\* The mapping m has one entry per requested ticker, and the entry of a ticker
\* is the label of what the provider answered for that ticker alone.
MappingComplet(m) ==
    /\ DOMAIN m = Etendue(tickers_list)
    /\ \A t \in DOMAIN m : m[t] \in Recommandations /\ m[t] = Etiquette(reponse[t])

\* C17: get_all_signals never ends on an exception, and what it returns has
\* exactly one entry per requested ticker, each of the four labels and each
\* depending on that ticker's own answer only, whatever the answers of the
\* others and whatever the order in which the workers ran.
C17_UneEntreeParTicker ==
    /\ pc # "exception"
    /\ pc \in {"return", "signaux_cache"} => MappingComplet(results)

\* C17 witness: a returned batch of all the tickers in which one fetch raised,
\* one series was empty and one gave a computed label.
C17_Witness ==
    /\ pc = "signaux_cache"
    /\ Len(tickers_list) = NbTickers
    /\ tickers_list[1] > tickers_list[2]
    /\ reponse[1].etat = "exception" /\ results[1] = "Neutre"
    /\ reponse[2] = [etat |-> "ok", Close |-> <<>>] /\ results[2] = "Neutre"
    /\ results[3] = "Acheter"

\* C18: the outcome reported for an empty series differs from the outcome
\* reported in every other situation; here, in the batch signal loader.
C18_VideDistinct ==
    \A a, b \in 1..Len(futures) :
       /\ futures[a].fait /\ futures[b].fait
       /\ reponse[tickers_list[a]] = [etat |-> "ok", Close |-> <<>>]
       /\ reponse[tickers_list[b]] # [etat |-> "ok", Close |-> <<>>]
       => futures[a].label # futures[b].label

\* All the tasks of the batch are over.
BatchFini ==
    /\ file = <<>>
    /\ \A w \in 1..MaxWorkers : workers[w].tache = 0
    /\ Len(futures) = Len(tickers_list)
    /\ \A k \in 1..Len(futures) : futures[k].fait

\* C20: the cache entry of get_all_signals, and what any reader got from it,
\* is either absent or the complete mapping, stored after every task of the
\* batch was over.
C20_PublicationAtomique ==
    /\ cache.present => BatchFini /\ MappingComplet(cache.valeur)
    /\ lu.present => BatchFini /\ MappingComplet(lu.valeur)

\* C20 witness: the reader read and got the complete mapping of a batch
\* of all the tickers.
C20_Witness ==
    /\ lectures = MaxLectures
    /\ lu.present
    /\ Len(tickers_list) = NbTickers
    /\ DOMAIN lu.valeur = 1..NbTickers
    /\ lu.valeur[tickers_list[1]] # lu.valeur[tickers_list[2]]

\* ---------------------------------------------- claims on malformed series
\* The dates of d are not strictly ascending (a duplicate date included).
MalFormee(d) == \E k \in 2..Len(d) : d[k].date <= d[k - 1].date

\* C19: a series whose dates are not strictly ascending, or that has a
\* duplicate date, is rejected before anything is computed: no moving average,
\* no latest price, no crossover exists for it and the detector is not run.
C19_RejetAvantCalcul ==
    MalFormee(data) =>
       /\ pc \in {"moyennes", "erreur"}
       /\ ma_cols = <<>> /\ prix_actuel = NaN
       /\ data_clean = <<>> /\ golden_crosses = <<>> /\ death_crosses = <<>>

\* ------------------------------------------------- claims on short series
\* C21: on a non-empty series shorter than a window the page does not fail:
\* the moving averages of the windows that are not filled are undefined, the
\* crossover lists are empty, and the page goes on to its indicators and its
\* recommendation.
C21_SerieCourte ==
    Len(data) >= 1 /\ Len(data) < SlowWindow =>
       /\ pc # "IndexError"
       /\ pc \in {"retour", "graphiques"} =>
             /\ dernier_ma200 = NaN
             /\ Len(data) < FastWindow => dernier_ma50 = NaN
             /\ golden_crosses = <<>> /\ death_crosses = <<>>

\* ------------------------------------------------------- claims on the RSI
\* C22: the undefined first delta propagates into the RSI: with period p the
\* RSI is undefined at every index below p (rows 1..p here), index p-1
\* included.
C22_RSIIndefiniAvantP ==
    pc \in {"macd", "bollinger_bands", "calcule"} =>
       \A r \in 1..Len(close) : r <= period => rsi[r] = QNaN

\* ------------------------------------------------ claims on the worker pool
\* The tasks that a worker has taken and that have not returned yet.
EnCours == {k \in 1..Len(futures) : ~futures[k].fait /\ \A q \in 1..Len(file) : file[q] # k}

\* C23: at most max_workers tasks of the batch run at the same time; a running
\* task holds the frame of its own ticker and a finished one the pair of its
\* own ticker, whatever the other tasks do; and every task is over when
\* get_all_signals returns.
C23_PoolBorne ==
    /\ Cardinality(EnCours) <= MaxWorkers
    /\ \A w \in 1..Len(workers) :
          workers[w].tache # 0 => workers[w].d = reponse[tickers_list[workers[w].tache]]
    /\ \A k \in 1..Len(futures) :
          futures[k].fait => /\ futures[k].sym = tickers_list[k]
                             /\ futures[k].label = Etiquette(reponse[tickers_list[k]])
    /\ pc \in {"return", "signaux_cache"} => BatchFini

\* C23 witness: every worker runs a task while another task waits in the queue.
C23_Witness ==
    /\ pc = "map"
    /\ Cardinality(EnCours) = MaxWorkers
    /\ file # <<>>
    /\ \A w \in 1..MaxWorkers : workers[w].tache # 0

\* ---------------------------------------------- claims on the frame effect
\* C24: the detector leaves the frame it is handed unchanged: a frame that had
\* no MA50 and no MA200 field at the call has none once the detector runs its
\* loop or has returned.
C24_EntreeInchangee ==
    pc \in {"boucle", "retour"} => ma_cols = <<>>

\* C25: wherever the RSI is defined it is a number of the closed range 0..100.
C25_RSIBorne ==
    pc \in {"macd", "bollinger_bands", "calcule"} =>
       \A r \in 1..Len(close) :
          rsi[r] # QNaN => /\ Fini(rsi[r])
                           /\ 0 <= rsi[r][1]
                           /\ rsi[r][1] <= 100 * rsi[r][2]

\* C25 witness: an RSI series that holds 0 or 100 on one row and a value
\* strictly between them on another.
C25_Witness ==
    /\ pc = "macd"
    /\ \E r \in 1..Len(close) : rsi[r] \in {Entier(0), Entier(100)}
    /\ \E r \in 1..Len(close) :
          Fini(rsi[r]) /\ 0 < rsi[r][1] /\ rsi[r][1] < 100 * rsi[r][2]

\* ------------------------------------- claims on headline and conclusion
\* C26: with MA ticked, the conclusion of the synthesis never contradicts the
\* headline: it is not BAISSIERE when price > MA50 > MA200 (ACHETER) and not
\* HAUSSIERE when price < MA50 < MA200 (VENDRE), whatever the other ticked
\* indicators and their values.
C26_ConclusionBornee ==
    pc \in {"bollinger", "fin"} /\ show_ma =>
       /\ Recommandation(prix_actuel, dernier_ma50, dernier_ma200) = "ACHETER"
             => conclusion # "BAISSIERE"
       /\ Recommandation(prix_actuel, dernier_ma50, dernier_ma200) = "VENDRE"
             => conclusion # "HAUSSIERE"

\* C26 witness: the headline is ACHETER, RSI and MACD are ticked and both
\* count against it, and the conclusion is NEUTRE.
C26_Witness ==
    /\ pc = "fin" /\ show_ma /\ show_rsi /\ show_macd
    /\ Recommandation(prix_actuel, dernier_ma50, dernier_ma200) = "ACHETER"
    /\ Gt(rsi_actuel, SeuilSurachat)
    /\ ~Gt(macd_actuel, signal_actuel)
    /\ signaux_positifs = PoidsMA /\ signaux_negatifs = PoidsRSI + PoidsMACD
    /\ conclusion = "NEUTRE"

\* ------------------------------------------- claims on the order of events
\* Between two events of the list s there is an event of the list t.
Intercale(s, t) ==
    \A a, b \in 1..Len(s) :
       a < b => \E c \in 1..Len(t) : s[a] < t[c] /\ t[c] < s[b]

\* On no row of the clean range does the fast average equal the slow one.
JamaisEgales == \A k \in 1..Len(data_clean) : data_clean[k].MA50 # data_clean[k].MA200

\* C27 as stated: the events alternate in kind, for every pair of MA series:
\* between two Golden Crosses there is a Death Cross and between two Death
\* Crosses a Golden Cross, also where the fast line touches the slow line
\* without crossing it.
C27_Alternance ==
    /\ Intercale(golden_crosses, death_crosses)
    /\ Intercale(death_crosses, golden_crosses)

\* C27 amended: the events alternate in kind on every series whose fast
\* average never equals the slow one in the clean range.
C27_AlternanceSansContact ==
    JamaisEgales =>
       /\ Intercale(golden_crosses, death_crosses)
       /\ Intercale(death_crosses, golden_crosses)

\* C27 witness: a finished run without contact that found a Golden Cross, a
\* Death Cross and a Golden Cross again.
C27_Witness ==
    /\ pc = "retour"
    /\ JamaisEgales
    /\ Len(golden_crosses) = 2 /\ Len(death_crosses) = 1
    /\ golden_crosses[1] < death_crosses[1] /\ death_crosses[1] < golden_crosses[2]

====
